---- MODULE Spec2Model ----
(***************************************************************************)
(* KonomiMegaCube: the cube manager (api/cube/core/cube_manager.py) and    *)
(* the standalone cube server's websocket hub                             *)
(* (services/standalone/cube_server.py).                                   *)
(*                                                                         *)
(* Both run on one asyncio event loop: a coroutine runs without            *)
(* interleaving from one suspending await to the next.  An action of this  *)
(* module is one such run-to-completion stretch of a task.                 *)
(***************************************************************************)
EXTENDS Integers, Sequences, FiniteSets, TLC

(***************************************************************************)
(* Bounds of the model.                                                    *)
(***************************************************************************)
MaxInit == 2        \* calls of CubeManager.initialize()
MaxSubmit == 2      \* calls of CubeManager.add_training_data()
MaxClients == 2     \* websocket connections over the life of the server

(***************************************************************************)
(* Inputs.                                                                 *)
(***************************************************************************)
\* node ids handed to add_training_data / get_node_status: an id below the
\* topology, a node whose role has no handler (PLC), the TRAINING node, an id
\* above the topology
NodeIdInputs == {0, 3, 7, 10}
\* node ids handed to get_node_status: those, and a node whose initialize()
\* may have raised
\* the stored nodes a caller outside the manager runs initialize() on again
ReinitInputs == {7}

StatusIdInputs == NodeIdInputs \cup {5}
\* which node's initialize() raises in one call of CubeManager.initialize():
\* none (0), the first, a middle one, the last
FailInputs == {0, 1, 5, 9}
\* which node's check_dependencies() raises in one sweep of the monitor: none
\* (0), a middle one
SweepFailInputs == {0, 5}
NoNode == [node_id |-> -1]      \* Python's None for a missing node
\* the websocket handles: one per connection, never reused
Clients == 1..MaxClients
\* values uuid.uuid4() may give the server
InstanceIds == {"uuid_a", "uuid_b"}
\* data.get("peer_id"): absent (None), the empty string, a peer's id
PeerIds == {"None", "", "X"}
MessageTypes == {"create_cube", "list_cubes", "peer_discovery", "other"}

VARIABLES
    active_nodes,       \* CubeManager.active_nodes : node id -> CubeNode
    training_queue,     \* CubeManager.training_queue (asyncio.Queue), head first
    unfinished_tasks,   \* asyncio.Queue's count of put() not yet task_done()
    websocket_server,   \* CubeManager.websocket_server is set
    consumer_pc,        \* one entry per _process_training_queue task
    monitor_pc,         \* one entry per _monitor_dependencies task
    init_calls,         \* history: calls of initialize() so far
    init_log,           \* history: what the last initialize() did, in order
    submitted,          \* history: the items put, in submission order
    consumer_log,       \* history: what the consumer tasks did, in order
    last_sweep,         \* history: the last monitor sweep: the nodes known at
                        \* its start, those whose refresh it attempted
    last_call,          \* history: the last public call and how it ended
    active_connections, \* StandaloneCubeServer.active_connections
    instance_id,        \* StandaloneCubeServer.instance_id
    ws_pc,              \* per handle: handle_websocket_connection's position
    bc,                 \* the broadcast_message call in flight, if any
    last_rx,            \* history: the last inbound message and its replies
    acks,               \* history: instance ids sent in peer_ack replies
    key_errors          \* history: handles whose remove() raised KeyError

mgr_vars == <<active_nodes, training_queue, unfinished_tasks, websocket_server,
              consumer_pc, monitor_pc, init_calls, init_log, submitted,
              consumer_log, last_sweep, last_call>>

hub_vars == <<active_connections, instance_id, ws_pc, bc, last_rx, acks,
              key_errors>>

vars == <<mgr_vars, hub_vars>>

(***************************************************************************)
(* CubeNode                                                                *)
(***************************************************************************)
node_roles ==
    << <<"vertex_1", "SCADA">>, <<"vertex_2", "HMI">>, <<"vertex_3", "PLC">>,
       <<"vertex_4", "HISTORIAN">>, <<"vertex_5", "GATEWAY">>,
       <<"vertex_6", "LOAD_BALANCER">>, <<"vertex_7", "TRAINING">>,
       <<"vertex_8", "MONITORING">>, <<"central", "COORDINATOR">> >>

\* CubeNode.__init__
CubeNode(node_id, name, role) ==
    [node_id |-> node_id, name |-> name, role |-> role,
     dependencies |-> <<>>, status |-> "initializing"]

\* CubeNode.initialize: the try body sets status "active"; when it raises the
\* handler sets status "error" and re-raises.  `fails` is whether the try body
\* raises.
NodeInitialize(node, fails) ==
    IF fails
    THEN [node |-> [node EXCEPT !.status = "error"], raised |-> TRUE]
    ELSE [node |-> [node EXCEPT !.status = "active"], raised |-> FALSE]

\* a process_training_data that lets the error of a role it has no handler
\* for reach its caller
NodeProcess_Raises(node, data) ==
    IF node.role \in {"TRAINING", "MONITORING"}
    THEN [node |-> node, handler |-> "wired",
          outcome |-> "handler_error_logged", raised |-> FALSE]
    ELSE [node |-> node, handler |-> "none",
          outcome |-> "raised", raised |-> TRUE]

\* CubeNode.process_training_data: dispatch on the role.  The two handlers it
\* names, _handle_training_data and _handle_monitoring_data, are not defined
\* by the class, so the call raises AttributeError inside the try and the
\* except logs it; nothing is raised to the caller and the node is unchanged.
NodeProcess(node, data) ==
    IF node.role = "TRAINING"
    THEN [node |-> node, handler |-> "_handle_training_data",
          outcome |-> "handler_error_logged", raised |-> FALSE]
    ELSE IF node.role = "MONITORING"
    THEN [node |-> node, handler |-> "_handle_monitoring_data",
          outcome |-> "handler_error_logged", raised |-> FALSE]
    ELSE [node |-> node, handler |-> "none",
          outcome |-> "noop", raised |-> FALSE]

\* CubeNode.check_dependencies: pass
NodeCheckDependencies(node) == node

\* CubeNode.get_status (the timestamp, a wall-clock reading nothing reads
\* back, is left out)
NodeGetStatus(node) ==
    [node_id |-> node.node_id, name |-> node.name, role |-> node.role,
     status |-> node.status, dependencies |-> node.dependencies]

(***************************************************************************)
(* CubeManager                                                             *)
(***************************************************************************)
\* dict.get(node_id): the node, or None
NodeLookup(nodes, node_id) ==
    IF node_id \in DOMAIN nodes THEN nodes[node_id] ELSE NoNode

\* self.active_nodes[node_id] = node
NodeStore(nodes, node_id, node) ==
    [i \in (DOMAIN nodes) \cup {node_id} |->
        IF i = node_id THEN node ELSE nodes[i]]

\* CubeManager._initialize_nodes from index i on.  `fail` is the index of the
\* node whose initialize() raises (0: none does).  The loop has no handler:
\* the exception leaves the loop at once.
RECURSIVE InitializeNodesFrom(_, _, _, _)
InitializeNodesFrom(i, nodes, log, fail) ==
    IF i > Len(node_roles)
    THEN [nodes |-> nodes, log |-> log, raised |-> FALSE]
    ELSE LET node == CubeNode(i, node_roles[i][1], node_roles[i][2])
             r == NodeInitialize(node, i = fail)
         IN  IF r.raised
             THEN [nodes |-> nodes,
                   log |-> log \o << <<"create", i>>, <<"init_raised", i>> >>,
                   raised |-> TRUE]
             ELSE InitializeNodesFrom(
                      i + 1,
                      NodeStore(nodes, i, r.node),
                      log \o << <<"create", i>>, <<"init", i>>, <<"store", i>> >>,
                      fail)

InitializeNodes(nodes, fail) == InitializeNodesFrom(1, nodes, <<>>, fail)

\* CubeManager.initialize.  KWebSocketServer(...) is a plain constructor call;
\* _initialize_nodes never suspends (CubeNode.initialize awaits nothing), so
\* the whole call is one step.  When a node fails the except re-raises and the
\* two create_task calls are not reached.
initialize(fail) ==
    /\ init_calls < MaxInit
    /\ LET r == InitializeNodes(active_nodes, fail)
       IN  /\ websocket_server' = TRUE
           /\ active_nodes' = r.nodes
           /\ init_calls' = init_calls + 1
           /\ IF r.raised
              THEN /\ init_log' = r.log
                   /\ UNCHANGED <<consumer_pc, monitor_pc>>
                   /\ last_call' = [op |-> "initialize", arg |-> 0,
                                    outcome |-> "raised", value |-> NoNode]
              ELSE /\ init_log' = r.log \o << <<"create_task", "consumer">>,
                                              <<"create_task", "monitor">> >>
                   /\ consumer_pc' = Append(consumer_pc, "get")
                   /\ monitor_pc' = Append(monitor_pc, "sweep")
                   /\ last_call' = [op |-> "initialize", arg |-> 0,
                                    outcome |-> "returned", value |-> NoNode]
    /\ UNCHANGED <<training_queue, unfinished_tasks, submitted, consumer_log,
                   last_sweep>>
    /\ UNCHANGED hub_vars

\* asyncio.Queue.put on an unbounded queue
QueuePut(q, item) == Append(q, item)

\* a queue that hands out its newest item
QueueGetLast(q) == [item |-> q[Len(q)], rest |-> SubSeq(q, 1, Len(q) - 1)]

\* asyncio.Queue.get on a non-empty queue
QueueGet(q) == [item |-> Head(q), rest |-> Tail(q)]

\* an add_training_data that rejects a node id it does not know
add_training_data_Validating(node_id) ==
    /\ Len(submitted) < MaxSubmit
    /\ IF node_id \in DOMAIN active_nodes
       THEN LET item == [node_id |-> node_id, data |-> Len(submitted) + 1]
            IN  /\ training_queue' = Append(training_queue, item)
                /\ submitted' = Append(submitted, item)
                /\ unfinished_tasks' = unfinished_tasks + 1
                /\ last_call' = [op |-> "add_training_data", arg |-> 0,
                                 outcome |-> "returned", value |-> NoNode]
       ELSE /\ last_call' = [op |-> "add_training_data", arg |-> 0,
                             outcome |-> "ValueError_not_found", value |-> NoNode]
            /\ UNCHANGED <<training_queue, submitted, unfinished_tasks>>
    /\ UNCHANGED <<active_nodes, websocket_server, consumer_pc, monitor_pc,
                   init_calls, init_log, consumer_log, last_sweep>>
    /\ UNCHANGED hub_vars

\* CubeManager.add_training_data.  The payload is the item's sequence number.
add_training_data(node_id) ==
    /\ Len(submitted) < MaxSubmit
    /\ LET item == [node_id |-> node_id, data |-> Len(submitted) + 1]
       IN  /\ training_queue' = QueuePut(training_queue, item)
           /\ submitted' = Append(submitted, item)
           /\ unfinished_tasks' = unfinished_tasks + 1
           /\ last_call' = [op |-> "add_training_data", arg |-> 0,
                            outcome |-> "returned", value |-> NoNode]
    /\ UNCHANGED <<active_nodes, websocket_server, consumer_pc, monitor_pc,
                   init_calls, init_log, consumer_log, last_sweep>>
    /\ UNCHANGED hub_vars

\* a get_node_status that takes the id for a 0-based index
GetNodeStatus_OffByOne(nodes, node_id) ==
    LET node == IF node_id - 1 \in DOMAIN nodes THEN nodes[node_id - 1] ELSE NoNode
    IN  IF node = NoNode
        THEN [outcome |-> "ValueError_not_found", value |-> NoNode]
        ELSE [outcome |-> "returned",
              value |-> [node_id |-> node.node_id, name |-> node.name,
                         role |-> node.role, status |-> node.status,
                         dependencies |-> node.dependencies]]

\* CubeManager.get_node_status
GetNodeStatus(nodes, node_id) ==
    LET node == NodeLookup(nodes, node_id)
    IN  IF node = NoNode
        THEN [outcome |-> "ValueError_not_found", value |-> NoNode]
        ELSE [outcome |-> "returned", value |-> NodeGetStatus(node)]

get_node_status(node_id) ==
    /\ LET r == GetNodeStatus(active_nodes, node_id)
       IN  last_call' = [op |-> "get_node_status", arg |-> node_id,
                         outcome |-> r.outcome, value |-> r.value]
    /\ UNCHANGED <<active_nodes, training_queue, unfinished_tasks,
                   websocket_server, consumer_pc, monitor_pc, init_calls,
                   init_log, submitted, consumer_log, last_sweep>>
    /\ UNCHANGED hub_vars

\* A caller outside the manager awaits initialize() of the node stored under
\* node_id once more (the manager hands its nodes out through the public
\* active_nodes).  CubeNode.initialize does not look at the current status.
NodeReinitialize(node_id, fails) ==
    /\ node_id \in DOMAIN active_nodes
    /\ active_nodes' = NodeStore(active_nodes, node_id,
                                 NodeInitialize(active_nodes[node_id], fails).node)
    /\ UNCHANGED <<training_queue, unfinished_tasks, websocket_server,
                   consumer_pc, monitor_pc, init_calls, init_log, submitted,
                   consumer_log, last_sweep, last_call>>
    /\ UNCHANGED hub_vars

\* an entry of consumer_log
Event(ev, task, node_id, outcome) ==
    [ev |-> ev, data |-> task.data, node_id |-> node_id, outcome |-> outcome]

\* One pass of the body of CubeManager._process_training_queue's loop on the
\* task just taken from the queue: look the node up, process when found,
\* task_done().  An exception out of process_training_data skips task_done()
\* and is logged by the loop's except.
ProcessTask(nodes, task) ==
    LET node == NodeLookup(nodes, task.node_id)
        got == Event("get", task, task.node_id, "ok")
        done == Event("task_done", task, task.node_id, "ok")
    IN  IF node # NoNode
        THEN LET r == NodeProcess(node, task.data)
                 processed == Event("process", task, node.node_id, r.outcome)
             IN  [nodes |-> NodeStore(nodes, task.node_id, r.node),
                  log |-> IF r.raised
                          THEN << got, processed,
                                  Event("error_logged", task, task.node_id, "ok") >>
                          ELSE << got, processed, done >>,
                  raised |-> r.raised]
        ELSE [nodes |-> nodes, log |-> << got, done >>, raised |-> FALSE]

\* a consumer whose loop ends when the handling of an item met an error
ConsumerStep_DiesOnError(k) ==
    /\ consumer_pc[k] = "get"
    /\ training_queue # <<>>
    /\ LET g == QueueGet(training_queue)
           r == ProcessTask(active_nodes, g.item)
           failed == \E i \in DOMAIN r.log :
                        r.log[i].outcome \notin {"ok", "noop"}
       IN  /\ training_queue' = g.rest
           /\ active_nodes' = r.nodes
           /\ consumer_log' = consumer_log \o r.log
           /\ unfinished_tasks' = unfinished_tasks - 1
           /\ consumer_pc' = [consumer_pc EXCEPT
                                 ![k] = IF failed THEN "ended" ELSE "sleep"]
    /\ UNCHANGED <<websocket_server, monitor_pc, init_calls, init_log,
                   submitted, last_sweep, last_call>>
    /\ UNCHANGED hub_vars

\* A consumer task resumed in `await self.training_queue.get()` with an item
\* in the queue: nothing suspends between the get and the sleep.  The try
\* is inside the while: with or without an exception the task sleeps next.
ConsumerStep(k) ==
    /\ consumer_pc[k] = "get"
    /\ training_queue # <<>>
    /\ LET g == QueueGet(training_queue)
           r == ProcessTask(active_nodes, g.item)
       IN  /\ training_queue' = g.rest
           /\ active_nodes' = r.nodes
           /\ consumer_log' = consumer_log \o r.log
           /\ unfinished_tasks' = IF r.raised THEN unfinished_tasks
                                  ELSE unfinished_tasks - 1
    /\ consumer_pc' = [consumer_pc EXCEPT ![k] = "sleep"]
    /\ UNCHANGED <<websocket_server, monitor_pc, init_calls, init_log,
                   submitted, last_sweep, last_call>>
    /\ UNCHANGED hub_vars

\* a consumer whose pause never ends
ConsumerWake_Stuck(k) ==
    /\ consumer_pc[k] = "sleep"
    /\ UNCHANGED mgr_vars
    /\ UNCHANGED hub_vars

\* asyncio.sleep(0.1) is over
ConsumerWake(k) ==
    /\ consumer_pc[k] = "sleep"
    /\ consumer_pc' = [consumer_pc EXCEPT ![k] = "get"]
    /\ UNCHANGED <<active_nodes, training_queue, unfinished_tasks,
                   websocket_server, monitor_pc, init_calls, init_log,
                   submitted, consumer_log, last_sweep, last_call>>
    /\ UNCHANGED hub_vars

\* the node ids of a dict in iteration order (insertion order; the manager
\* only ever inserts 1, 2, ... in order)
RECURSIVE KeysInOrder(_, _)
KeysInOrder(nodes, i) ==
    IF i > Len(node_roles) THEN <<>>
    ELSE (IF i \in DOMAIN nodes THEN <<i>> ELSE <<>>) \o KeysInOrder(nodes, i + 1)

\* The for loop of CubeManager._monitor_dependencies over the keys still to
\* come.  `fail` is the node whose check_dependencies() raises (0: none does;
\* as written the method is a stub that cannot).  The try is around the whole
\* loop: the exception leaves the loop and the except logs it.
RECURSIVE SweepFrom(_, _, _, _)
SweepFrom(keys, nodes, attempted, fail) ==
    IF keys = <<>>
    THEN [nodes |-> nodes, attempted |-> attempted, raised |-> FALSE]
    ELSE LET i == Head(keys)
         IN  IF i = fail
             THEN [nodes |-> nodes, attempted |-> Append(attempted, i),
                   raised |-> TRUE]
             ELSE SweepFrom(Tail(keys),
                            NodeStore(nodes, i, NodeCheckDependencies(nodes[i])),
                            Append(attempted, i), fail)

\* One sweep of CubeManager._monitor_dependencies; no check_dependencies
\* suspends.  Whether or not the sweep raised, the task sleeps next.
MonitorSweep(m, fail) ==
    /\ monitor_pc[m] = "sweep"
    /\ LET keys == KeysInOrder(active_nodes, 1)
           r == SweepFrom(keys, active_nodes, <<>>, fail)
       IN  /\ active_nodes' = r.nodes
           /\ last_sweep' = [known |-> keys, attempted |-> r.attempted,
                             raised |-> r.raised]
    /\ monitor_pc' = [monitor_pc EXCEPT ![m] = "sleep"]
    /\ UNCHANGED <<training_queue, unfinished_tasks, websocket_server,
                   consumer_pc, init_calls, init_log, submitted, consumer_log,
                   last_call>>
    /\ UNCHANGED hub_vars

\* asyncio.sleep(cache_ttl) is over
MonitorWake(m) ==
    /\ monitor_pc[m] = "sleep"
    /\ monitor_pc' = [monitor_pc EXCEPT ![m] = "sweep"]
    /\ UNCHANGED <<active_nodes, training_queue, unfinished_tasks,
                   websocket_server, consumer_pc, init_calls, init_log,
                   submitted, consumer_log, last_sweep, last_call>>
    /\ UNCHANGED hub_vars

\* CubeManager.__init__
MgrInit ==
    /\ active_nodes = <<>>
    /\ training_queue = <<>>
    /\ unfinished_tasks = 0
    /\ websocket_server = FALSE
    /\ consumer_pc = <<>>
    /\ monitor_pc = <<>>
    /\ init_calls = 0
    /\ init_log = <<>>
    /\ submitted = <<>>
    /\ consumer_log = <<>>
    /\ last_sweep = [known |-> <<>>, attempted |-> <<>>, raised |-> FALSE]
    /\ last_call = [op |-> "none", arg |-> 0, outcome |-> "none", value |-> NoNode]

(***************************************************************************)
(* StandaloneCubeServer: the websocket hub                                 *)
(***************************************************************************)
\* Python truthiness of data.get("peer_id")
Truthy(v) == v \notin {"None", ""}

\* one websocket.send_json(...) and whether it went through
Send(c, type, id, ok) == [to |-> c, type |-> type, instance_id |-> id, ok |-> ok]

\* a handler that answers with the peer's id
HandlePeerDiscovery_EchoPeer(c, peer_id, id, send_ok) ==
    IF Truthy(peer_id)
    THEN [sends |-> << Send(c, "peer_ack", peer_id, send_ok) >>, raised |-> ~send_ok]
    ELSE [sends |-> <<>>, raised |-> FALSE]

\* StandaloneCubeServer.handle_peer_discovery: the reply is sent only for a
\* truthy peer_id; a failing send raises to process_message.
HandlePeerDiscovery(c, peer_id, id, send_ok) ==
    IF Truthy(peer_id)
    THEN [sends |-> << Send(c, "peer_ack", id, send_ok) >>, raised |-> ~send_ok]
    ELSE [sends |-> <<>>, raised |-> FALSE]

\* a process_message without its except: no error reply, the exception
\* goes to the caller
ProcessMessage_NoErrorReply(c, msg, id, mgr_ok, send_ok, err_ok) ==
    IF msg.type \in {"create_cube", "list_cubes"}
    THEN IF mgr_ok
         THEN [sends |-> << Send(c, IF msg.type = "create_cube"
                                    THEN "cube_created" ELSE "cube_list",
                                 "none", send_ok) >>,
               raised |-> ~send_ok]
         ELSE [sends |-> <<>>, raised |-> TRUE]
    ELSE IF msg.type = "peer_discovery" /\ Truthy(msg.peer_id)
    THEN [sends |-> << Send(c, "peer_ack", id, send_ok) >>, raised |-> ~send_ok]
    ELSE [sends |-> <<>>, raised |-> FALSE]

\* StandaloneCubeServer.process_message.  mgr_ok: the call of the cube
\* manager service (create_scada_cube, list_cubes) returns; send_ok: the
\* reply's send_json goes through; err_ok: the error reply's send_json goes
\* through.  An exception in the try body is answered with an error message;
\* when that send fails too, the exception leaves process_message.
ProcessMessage(c, msg, id, mgr_ok, send_ok, err_ok) ==
    LET body ==
            IF msg.type = "create_cube"
            THEN IF mgr_ok
                 THEN [sends |-> << Send(c, "cube_created", "none", send_ok) >>,
                       raised |-> ~send_ok]
                 ELSE [sends |-> <<>>, raised |-> TRUE]
            ELSE IF msg.type = "list_cubes"
            THEN IF mgr_ok
                 THEN [sends |-> << Send(c, "cube_list", "none", send_ok) >>,
                       raised |-> ~send_ok]
                 ELSE [sends |-> <<>>, raised |-> TRUE]
            ELSE IF msg.type = "peer_discovery"
            THEN HandlePeerDiscovery(c, msg.peer_id, id, send_ok)
            ELSE [sends |-> <<>>, raised |-> FALSE]
    IN  IF body.raised
        THEN [sends |-> Append(body.sends, Send(c, "error", "none", err_ok)),
              raised |-> ~err_ok]
        ELSE body

\* an idle broadcast frame.  cur holds the connection whose send is in
\* flight, if any.
NoBroadcast ==
    [state |-> "idle", size |-> 0, start |-> {}, visited |-> {},
     cur |-> {}, attempts |-> [c \in Clients |-> 0],
     delivered |-> {}, failed |-> {}, mutated |-> FALSE]

\* next() of the set iterator of `for connection in self.active_connections`
\* followed by the start of that connection's send_json: the frames it may
\* lead to.  CPython raises RuntimeError when the set's size differs from its
\* size when the iterator was made.  Otherwise every member not yet yielded
\* that was in the set from the start is still to come; a member added since
\* is yielded or passed over, depending on the slot it landed in (the table
\* is not rebuilt below five insertions, so nothing yielded comes again).
IterNext(f, conns) ==
    IF Cardinality(conns) # f.size
    THEN {[f EXCEPT !.state = "raised", !.cur = {}]}
    ELSE LET unvisited == conns \ f.visited
         IN  {[f EXCEPT !.state = "send", !.cur = {c},
                        !.visited = @ \cup {c},
                        !.attempts[c] = @ + 1] : c \in unvisited}
             \cup (IF unvisited \cap f.start = {}
                   THEN {[f EXCEPT !.state = "done", !.cur = {}]}
                   ELSE {})

\* a loop without the try: the failed send ends the broadcast
SendFailed_Propagates(f) ==
    [f EXCEPT !.failed = @ \cup f.cur, !.state = "raised", !.cur = {}]

\* what the except of broadcast_message's loop does with a failed send: the
\* error is logged and the loop goes on
SendFailed(f) == [f EXCEPT !.failed = @ \cup f.cur]

\* StandaloneCubeServer.broadcast_message is called: the iterator is made and
\* the first send begins.
BroadcastStart ==
    /\ bc.state \in {"idle", "done", "raised"}
    /\ bc' \in IterNext([NoBroadcast EXCEPT
                            !.size = Cardinality(active_connections),
                            !.start = active_connections],
                        active_connections)
    /\ UNCHANGED <<active_connections, instance_id, ws_pc, last_rx, acks,
                   key_errors>>
    /\ UNCHANGED mgr_vars

\* a broadcast that drops the connection whose send failed
BroadcastSendDone_Unregisters(ok) ==
    /\ bc.state = "send"
    /\ LET f == IF ok THEN [bc EXCEPT !.delivered = @ \cup bc.cur]
                ELSE SendFailed(bc)
           conns == IF ok THEN active_connections
                    ELSE active_connections \ bc.cur
       IN  /\ active_connections' = conns
           /\ bc' \in IterNext([f EXCEPT !.size = Cardinality(conns)], conns)
    /\ UNCHANGED <<instance_id, ws_pc, last_rx, acks, key_errors>>
    /\ UNCHANGED mgr_vars

\* The send in flight ends, with or without an exception, and the loop goes
\* on to the next connection.
BroadcastSendDone(ok) ==
    /\ bc.state = "send"
    /\ LET f == IF ok THEN [bc EXCEPT !.delivered = @ \cup bc.cur]
                ELSE SendFailed(bc)
       IN  IF f.state = "send"
           THEN bc' \in IterNext(f, active_connections)
           ELSE bc' = f
    /\ UNCHANGED <<active_connections, instance_id, ws_pc, last_rx, acks,
                   key_errors>>
    /\ UNCHANGED mgr_vars

\* the client set changes while a broadcast is suspended in a send
Touch(f) == IF f.state = "send" THEN [f EXCEPT !.mutated = TRUE] ELSE f

\* self.active_connections.add(websocket)
Register(conns, c) == conns \cup {c}

\* a finally that leaves the handle in the set
Unregister_Keeps(conns, c) == conns

\* self.active_connections.remove(websocket), which raises KeyError for a
\* handle that is not in the set
Unregister(conns, c) == conns \ {c}

\* handle_websocket_connection up to its first receive_json: accept, then
\* add the handle.  When accept raises, the handler ends before the try.
Connect(c, accept_ok) ==
    /\ ws_pc[c] = "new"
    /\ IF accept_ok
       THEN /\ active_connections' = Register(active_connections, c)
            /\ ws_pc' = [ws_pc EXCEPT ![c] = "open"]
            /\ bc' = Touch(bc)
       ELSE /\ ws_pc' = [ws_pc EXCEPT ![c] = "closed"]
            /\ UNCHANGED <<active_connections, bc>>
    /\ UNCHANGED <<instance_id, last_rx, acks, key_errors>>
    /\ UNCHANGED mgr_vars

\* the finally of handle_websocket_connection: the handle is removed and the
\* handler ends; remove() of a handle that is not in the set raises KeyError
Finally(c) ==
    /\ active_connections' = Unregister(active_connections, c)
    /\ key_errors' = IF c \in active_connections THEN key_errors
                     ELSE key_errors \cup {c}
    /\ bc' = IF c \in active_connections THEN Touch(bc) ELSE bc
    /\ ws_pc' = [ws_pc EXCEPT ![c] = "closed"]

\* receive_json raises (the peer went away): except logs, finally removes
Disconnect(c) ==
    /\ ws_pc[c] = "open"
    /\ Finally(c)
    /\ UNCHANGED <<instance_id, last_rx, acks>>
    /\ UNCHANGED mgr_vars

\* receive_json returns msg and process_message handles it.  The sends touch
\* this handle only, so the stretch from the receive to the next receive (or
\* to the finally, when process_message raises) is taken as one step.
Receive(c, msg, mgr_ok, send_ok, err_ok) ==
    /\ ws_pc[c] = "open"
    /\ LET r == ProcessMessage(c, msg, instance_id, mgr_ok, send_ok, err_ok)
       IN  /\ last_rx' = [client |-> {c}, msg |-> msg, sends |-> r.sends,
                          raised |-> r.raised]
           /\ acks' = acks \cup {r.sends[i].instance_id :
                                   i \in {j \in DOMAIN r.sends :
                                            r.sends[j].type = "peer_ack"}}
           /\ IF r.raised
              THEN Finally(c)
              ELSE UNCHANGED <<active_connections, ws_pc, bc, key_errors>>
    /\ UNCHANGED instance_id
    /\ UNCHANGED mgr_vars

Messages ==
    {[type |-> t, peer_id |-> "None"] : t \in MessageTypes \ {"peer_discovery"}}
    \cup {[type |-> "peer_discovery", peer_id |-> p] : p \in PeerIds}

\* how the calls process_message makes for msg may end; a flag the handling
\* of msg never reads is held at TRUE
Outcomes(msg) ==
    {e \in [mgr_ok : BOOLEAN, send_ok : BOOLEAN, err_ok : BOOLEAN] :
        /\ (msg.type \notin {"create_cube", "list_cubes"} => e.mgr_ok)
        /\ (~e.mgr_ok => e.send_ok)
        /\ ((msg.type = "other"
               \/ (msg.type = "peer_discovery" /\ ~Truthy(msg.peer_id)))
              => e.send_ok)
        /\ ((e.mgr_ok /\ e.send_ok) => e.err_ok)}

\* StandaloneCubeServer.__init__
HubInit ==
    /\ active_connections = {}
    /\ instance_id \in InstanceIds
    /\ ws_pc = [c \in Clients |-> "new"]
    /\ bc = NoBroadcast
    /\ last_rx = [client |-> {}, msg |-> [type |-> "none", peer_id |-> "None"],
                  sends |-> <<>>, raised |-> FALSE]
    /\ acks = {}
    /\ key_errors = {}

Init == MgrInit /\ HubInit

MgrNext ==
    \/ \E fail \in FailInputs : initialize(fail)
    \/ \E node_id \in NodeIdInputs : add_training_data(node_id)
    \/ \E node_id \in StatusIdInputs : get_node_status(node_id)
    \/ \E k \in DOMAIN consumer_pc : ConsumerStep(k)
    \/ \E k \in DOMAIN consumer_pc : ConsumerWake(k)
    \/ \E m \in DOMAIN monitor_pc : MonitorSweep(m, 0)
    \/ \E m \in DOMAIN monitor_pc : MonitorWake(m)

HubNext ==
    \/ \E c \in Clients, ok \in BOOLEAN : Connect(c, ok)
    \/ \E c \in Clients : Disconnect(c)
    \/ \E c \in Clients, msg \in Messages : \E e \in Outcomes(msg) :
           Receive(c, msg, e.mgr_ok, e.send_ok, e.err_ok)
    \/ BroadcastStart
    \/ \E ok \in BOOLEAN : BroadcastSendDone(ok)

Next == MgrNext \/ HubNext

\* the cube manager on its own: the hub stays as constructed, and which
\* instance id it drew plays no part
MgrSpecInit == MgrInit /\ HubInit /\ instance_id = "uuid_a"

Spec == MgrSpecInit /\ [][MgrNext]_vars

\* the websocket hub on its own
HubSpec == Init /\ [][HubNext]_vars

\* The life of the stored nodes: the manager after initialize() calls that
\* stored all nine nodes, with a caller that awaits initialize() of a stored
\* node again, reads its status, and submits items for it.
NodeNext ==
    \/ initialize(0)
    \/ \E node_id \in NodeIdInputs : add_training_data(node_id)
    \/ \E node_id \in ReinitInputs : get_node_status(node_id)
    \/ \E node_id \in ReinitInputs, fails \in BOOLEAN :
           NodeReinitialize(node_id, fails)
    \/ \E k \in DOMAIN consumer_pc : ConsumerStep(k)
    \/ \E k \in DOMAIN consumer_pc : ConsumerWake(k)
    \/ \E m \in DOMAIN monitor_pc : MonitorSweep(m, 0)
    \/ \E m \in DOMAIN monitor_pc : MonitorWake(m)

NodeSpec == MgrSpecInit /\ [][NodeNext]_vars

\* The dependency monitor with a check_dependencies that can raise (the stub
\* in the source cannot; the method is the place its comment reserves for
\* the dependency checking logic).
SweepNext ==
    \/ \E fail \in FailInputs : initialize(fail)
    \/ \E node_id \in NodeIdInputs : add_training_data(node_id)
    \/ \E m \in DOMAIN monitor_pc, fail \in SweepFailInputs : MonitorSweep(m, fail)
    \/ \E m \in DOMAIN monitor_pc : MonitorWake(m)

SweepSpec == MgrSpecInit /\ [][SweepNext]_vars

\* The queue and its consumers, with the scheduling of the event loop: a
\* consumer task that stays ready to run is run (a get() with an item waiting
\* returns, a sleep(0.1) ends).
QueueNext ==
    \/ \E fail \in FailInputs : initialize(fail)
    \/ \E node_id \in NodeIdInputs : add_training_data(node_id)
    \/ \E k \in DOMAIN consumer_pc : ConsumerStep(k)
    \/ \E k \in DOMAIN consumer_pc : ConsumerWake(k)

FairSpec ==
    /\ MgrSpecInit
    /\ [][QueueNext]_vars
    /\ WF_vars(\E k \in DOMAIN consumer_pc : ConsumerStep(k))
    /\ WF_vars(\E k \in DOMAIN consumer_pc : ConsumerWake(k))

(***************************************************************************)
(* Properties of the cube manager                                          *)
(***************************************************************************)
IsGet(e) == e.ev = "get"
IsProcess(e) == e.ev = "process"
Gets == SelectSeq(consumer_log, IsGet)
KnownIds == 1..Len(node_roles)

\* C1: the consumer handles the items in exactly submission order: the items
\* dequeued so far are the first submitted ones, in order; the queue holds
\* exactly the others, in order (nothing skipped, nothing twice); everything
\* done for an item (its get, its node's process_training_data, its
\* task_done) comes before the get of any item submitted after it; and no
\* item is processed twice.
C1_FifoOrder ==
    /\ Len(Gets) <= Len(submitted)
    /\ \A i \in DOMAIN Gets :
          /\ Gets[i].data = submitted[i].data
          /\ Gets[i].node_id = submitted[i].node_id
    /\ training_queue = SubSeq(submitted, Len(Gets) + 1, Len(submitted))
    /\ \A i, j \in DOMAIN consumer_log :
          (consumer_log[j].ev = "get" /\ consumer_log[i].data < consumer_log[j].data)
              => i < j
    /\ \A i, j \in DOMAIN consumer_log :
          (IsProcess(consumer_log[i]) /\ IsProcess(consumer_log[j])
             /\ consumer_log[i].data = consumer_log[j].data) => i = j

\* two items were submitted and both were dequeued and processed
C1_Witness ==
    /\ Len(submitted) = 2
    /\ Len(Gets) = 2
    /\ \E i, j \in DOMAIN consumer_log :
          /\ IsProcess(consumer_log[i]) /\ consumer_log[i].data = 1
          /\ IsProcess(consumer_log[j]) /\ consumer_log[j].data = 2

\* C2: add_training_data never validates the target: whatever the node id,
\* the call returns normally and each call has put exactly one item (the
\* items dequeued and the items queued are together the items submitted).  An
\* item whose node id is not in the node mapping is dropped: no
\* process_training_data is logged for it, it is not in the queue again, and
\* its get is followed at once by its task_done, after which the consumer
\* sleeps and goes on.
C2_SubmitUnvalidatedDropUnknown ==
    /\ last_call.op = "add_training_data" => last_call.outcome = "returned"
    /\ Len(training_queue) + Len(Gets) = Len(submitted)
    /\ \A i \in DOMAIN consumer_log :
          (IsGet(consumer_log[i]) /\ consumer_log[i].node_id \notin DOMAIN active_nodes)
              => /\ i + 1 \in DOMAIN consumer_log
                 /\ consumer_log[i + 1].ev = "task_done"
                 /\ consumer_log[i + 1].data = consumer_log[i].data
                 /\ \A j \in DOMAIN consumer_log :
                       IsProcess(consumer_log[j])
                           => consumer_log[j].data # consumer_log[i].data
                 /\ \A j \in DOMAIN training_queue :
                       training_queue[j].data # consumer_log[i].data
    /\ \A k \in DOMAIN consumer_pc : consumer_pc[k] \in {"get", "sleep"}

\* an item for the unknown id 10 was dropped and the item submitted after it
\* was processed
C2_Witness ==
    /\ Len(Gets) = 2
    /\ Gets[1].node_id = 10
    /\ \E j \in DOMAIN consumer_log :
          IsProcess(consumer_log[j]) /\ consumer_log[j].data = 2

\* C3 (as claimed): once initialize() has been called, the node mapping holds
\* exactly the nine nodes 1..9 with the roles of node_roles, in that order,
\* also when a node's initialize() raised.
C3_NineNodesAlways ==
    init_calls > 0 =>
        /\ DOMAIN active_nodes = KnownIds
        /\ \A i \in KnownIds :
              /\ active_nodes[i].node_id = i
              /\ active_nodes[i].role = node_roles[i][2]

\* C4 (as claimed): every call of initialize() processes all nine nodes and
\* then starts exactly one consumer and one monitor, also when a node's
\* initialization failed.
C4_LoopsStartedAfterNodes ==
    last_call.op = "initialize" =>
        /\ Len(init_log) >= 2
        /\ init_log[Len(init_log) - 1] = <<"create_task", "consumer">>
        /\ init_log[Len(init_log)] = <<"create_task", "monitor">>
        /\ \A i \in 1..(Len(init_log) - 2) : init_log[i][1] # "create_task"
        /\ \A n \in KnownIds :
              \E i \in 1..(Len(init_log) - 2) :
                  init_log[i][2] = n /\ init_log[i][1] \in {"store", "init_raised"}

\* C5 (as claimed): whatever public operations were called, at most one
\* queue consumer loop exists.
C5_SingleConsumer == Len(consumer_pc) <= 1

\* C6: a get_node_status step changes nothing of the manager; for an id
\* that is no key of the node mapping it ends with the not-found error, for
\* a key it returns a snapshot with that id and the role the node was made
\* with.
C6_NodeStatus ==
    [][\A id \in StatusIdInputs :
          get_node_status(id) =>
              /\ UNCHANGED <<active_nodes, training_queue, unfinished_tasks,
                             websocket_server, consumer_pc, monitor_pc>>
              /\ last_call'.op = "get_node_status"
              /\ IF id \in DOMAIN active_nodes
                 THEN /\ last_call'.outcome = "returned"
                      /\ last_call'.value.node_id = id
                      /\ last_call'.value.role = node_roles[id][2]
                 ELSE last_call'.outcome = "ValueError_not_found"]_vars

\* the status of node 7 was asked for and returned
C6_Witness ==
    /\ last_call.op = "get_node_status"
    /\ last_call.arg = 7
    /\ last_call.outcome = "returned"
    /\ last_call.value.role = "TRAINING"

\* C7 (as claimed): before initialize() has completed, add_training_data and
\* get_node_status fail with ManagerNotReady and nothing is enqueued.
C7_NotReadyBeforeInitialize ==
    Len(consumer_pc) = 0 =>
        /\ training_queue = <<>>
        /\ last_call.op \in {"add_training_data", "get_node_status"}
              => last_call.outcome = "ManagerNotReady"

(***************************************************************************)
(* Properties of the websocket hub                                         *)
(***************************************************************************)
IsAck(m) == m.type = "peer_ack"

\* C8: a broadcast during which the client set did not change returns
\* normally, has attempted exactly one send to every client registered at its
\* start and none to anyone else, and has delivered to exactly those whose
\* own send did not fail.
C8_BroadcastIsolation ==
    (bc.state \in {"done", "raised"} /\ ~bc.mutated) =>
        /\ bc.state = "done"
        /\ \A c \in Clients : bc.attempts[c] = (IF c \in bc.start THEN 1 ELSE 0)
        /\ bc.delivered \cup bc.failed = bc.start
        /\ bc.delivered \cap bc.failed = {}

\* a broadcast over an unchanged set ended with one send failed and another
\* delivered
C8_Witness ==
    /\ bc.state = "done"
    /\ ~bc.mutated
    /\ bc.failed # {}
    /\ bc.delivered # {}

\* C9 (as claimed): whatever connects or disconnects while a broadcast is in
\* flight, the broadcast is not disrupted: it never raises to its caller and
\* it sends to every client registered from its start to its end.
C9_BroadcastNeverDisrupted ==
    /\ bc.state # "raised"
    /\ bc.state = "done" =>
          \A c \in bc.start \cap active_connections : bc.attempts[c] = 1

\* C10 (as claimed): every inbound peer_discovery, whatever its peer_id, is
\* answered with exactly one peer_ack carrying the instance id.
C10_AlwaysAck ==
    last_rx.msg.type = "peer_discovery" =>
        /\ Len(SelectSeq(last_rx.sends, IsAck)) = 1
        /\ last_rx.sends[1].instance_id = instance_id

\* C10 (amended): an inbound peer_discovery with a non-empty peer_id makes the
\* handler send exactly one peer_ack, first, to the sending client, carrying
\* the server's instance_id; with an empty or absent peer_id nothing is sent;
\* and every peer_ack ever sent carried that same instance_id.
C10_AckIffPeerId ==
    /\ last_rx.msg.type = "peer_discovery" =>
          IF Truthy(last_rx.msg.peer_id)
          THEN /\ Len(SelectSeq(last_rx.sends, IsAck)) = 1
               /\ IsAck(last_rx.sends[1])
               /\ {last_rx.sends[1].to} = last_rx.client
               /\ last_rx.sends[1].instance_id = instance_id
               /\ (last_rx.sends[1].ok => Len(last_rx.sends) = 1)
          ELSE last_rx.sends = <<>>
    /\ acks \subseteq {instance_id}

\* a peer_discovery from peer "X" was answered with a peer_ack that went
\* through
C10_Witness ==
    /\ last_rx.msg.type = "peer_discovery"
    /\ last_rx.msg.peer_id = "X"
    /\ Len(last_rx.sends) = 1
    /\ last_rx.sends[1].ok
    /\ acks = {instance_id}

(***************************************************************************)
(* Properties of the background loops and of the node lifecycle            *)
(***************************************************************************)
\* C11 (as claimed): every sweep of the dependency monitor attempts the
\* refresh of every node known at its start, also when the refresh of one of
\* them raised, and no monitor loop ever ends.
C11_SweepCoversAllNodes ==
    /\ last_sweep.attempted = last_sweep.known
    /\ \A m \in DOMAIN monitor_pc : monitor_pc[m] \in {"sweep", "sleep"}

\* C12: no consumer loop ends because of an item: every consumer task is
\* at its get or in its sleep; an error met while an item was processed (a
\* handler that raised) was logged and the item's handling went on to its
\* end; and a consumer at its get takes the next item whenever there is one.
C12_ConsumerSurvivesErrors ==
    /\ \A k \in DOMAIN consumer_pc : consumer_pc[k] \in {"get", "sleep"}
    /\ \A i \in DOMAIN consumer_log :
          IsProcess(consumer_log[i]) =>
              /\ i + 1 \in DOMAIN consumer_log
              /\ consumer_log[i + 1].ev \in {"task_done", "error_logged"}
              /\ consumer_log[i + 1].data = consumer_log[i].data
    /\ \A k \in DOMAIN consumer_pc :
          (consumer_pc[k] = "get" /\ training_queue # <<>>)
              => ENABLED ConsumerStep(k)

\* the handler of the first item raised and the second item was dequeued
\* all the same
C12_Witness ==
    /\ \E i \in DOMAIN consumer_log :
          /\ IsProcess(consumer_log[i])
          /\ consumer_log[i].data = 1
          /\ consumer_log[i].outcome = "handler_error_logged"
    /\ \E j \in DOMAIN consumer_log :
          IsGet(consumer_log[j]) /\ consumer_log[j].data = 2

\* C13 (as claimed): after a call of initialize() in which node k's
\* initialize() raised, get_node_status(k) returns a snapshot with status
\* "error" and get_node_status of every other node of the topology returns
\* that node's snapshot.
C13_FailedNodeVisible ==
    (/\ last_call.op = "get_node_status"
     /\ init_log # <<>>
     /\ init_log[Len(init_log)][1] = "init_raised") =>
        LET k == init_log[Len(init_log)][2]
        IN  /\ last_call.arg = k =>
                  /\ last_call.outcome = "returned"
                  /\ last_call.value.status = "error"
            /\ last_call.arg \in KnownIds \ {k} =>
                  /\ last_call.outcome = "returned"
                  /\ last_call.value.node_id = last_call.arg

(***************************************************************************)
(* Properties of the client set and of the channel handlers                *)
(***************************************************************************)
IsError(m) == m.type = "error"
BroadcastStep == BroadcastStart \/ \E ok \in BOOLEAN : BroadcastSendDone(ok)

\* C14: no step of broadcast_message changes the client set or ends a
\* channel handler: a client whose send failed is still registered at the
\* step's end; and a handle leaves the set only in a step in which its own
\* handler ends.
C14_BroadcastKeepsClients ==
    [][/\ BroadcastStep =>
             /\ active_connections' = active_connections
             /\ ws_pc' = ws_pc
             /\ bc'.failed \cap bc.start \cap active_connections
                    \subseteq active_connections'
       /\ \A c \in Clients :
             (c \in active_connections /\ c \notin active_connections')
                 => (ws_pc[c] = "open" /\ ws_pc'[c] = "closed"
                       /\ bc'.attempts = bc.attempts)]_vars

\* a broadcast returned after a send failed, and the client it failed for
\* is still registered
C14_Witness ==
    /\ bc.state = "done"
    /\ bc.failed # {}
    /\ bc.failed \subseteq active_connections

\* C18: a handle is in the client set exactly while its handler is past the
\* accept and has not ended; remove() never raised; a handler that ended
\* stays ended and its handle is never in the set again; a handle enters the
\* set only in the step in which its handler accepts.
C18_RegisteredWhileOpen ==
    [][/\ \A c \in Clients :
             /\ (c \in active_connections) <=> (ws_pc[c] = "open")
             /\ (c \in active_connections') <=> (ws_pc'[c] = "open")
             /\ ws_pc[c] = "closed" => ws_pc'[c] = "closed"
             /\ (c \notin active_connections /\ c \in active_connections')
                    => ws_pc[c] = "new"
       /\ key_errors' = {}]_vars

\* a handler received a message, ended, and its handle is out of the set
\* while another handle is in it
C18_Witness ==
    \E c \in Clients :
        /\ last_rx.client = {c}
        /\ ws_pc[c] = "closed"
        /\ c \notin active_connections
        /\ active_connections # {}

\* C19: in a step that handles one inbound message: when the handling raised
\* (the cube manager call raised, or the reply's send failed) exactly one
\* error message is sent, last, to the sending client, and otherwise none;
\* unless the error message's own send fails, the client stays registered and
\* its handler goes on; when that send fails, the handler ends and the client
\* is unregistered.  And a client leaves the set only when its receive raised
\* or when such an error reply failed.  (Only the handling of a message
\* writes last_rx, and a handling that leaves last_rx as it was changes
\* nothing at all.)
C19_ErrorReply ==
    [][/\ last_rx' # last_rx =>
          \A c \in last_rx'.client : \A e \in Outcomes(last_rx'.msg) :
             Receive(c, last_rx'.msg, e.mgr_ok, e.send_ok, e.err_ok) =>
                 LET sends == last_rx'.sends
                     msg == last_rx'.msg
                     failed ==
                         \/ (msg.type \in {"create_cube", "list_cubes"} /\ ~e.mgr_ok)
                         \/ \E i \in DOMAIN sends : ~IsError(sends[i]) /\ ~sends[i].ok
                 IN  /\ Len(SelectSeq(sends, IsError)) = (IF failed THEN 1 ELSE 0)
                     /\ failed => /\ IsError(sends[Len(sends)])
                                  /\ sends[Len(sends)].to = c
                     /\ IF failed /\ ~sends[Len(sends)].ok
                        THEN c \notin active_connections' /\ ws_pc'[c] = "closed"
                        ELSE /\ active_connections' = active_connections
                             /\ ws_pc' = ws_pc
                             /\ c \in active_connections'
       /\ \A c \in Clients :
             (c \in active_connections /\ c \notin active_connections')
                 => \/ Disconnect(c)
                    \/ /\ last_rx'.client = {c}
                       /\ last_rx'.raised
                       /\ last_rx'.sends # <<>>
                       /\ IsError(last_rx'.sends[Len(last_rx'.sends)])
                       /\ ~last_rx'.sends[Len(last_rx'.sends)].ok]_vars

\* the cube manager call raised, the error reply went through, and the
\* client is still registered with its handler at the next receive
C19_Witness ==
    \E c \in Clients :
        /\ last_rx.client = {c}
        /\ last_rx.msg.type = "create_cube"
        /\ Len(last_rx.sends) = 1
        /\ IsError(last_rx.sends[1])
        /\ last_rx.sends[1].ok
        /\ c \in active_connections
        /\ ws_pc[c] = "open"

(***************************************************************************)
(* Properties of the nodes                                                 *)
(***************************************************************************)
\* the entries one consumer step adds to consumer_log
NewEvents == SubSeq(consumer_log', Len(consumer_log) + 1, Len(consumer_log'))

\* C15 (as claimed): when the consumer dequeues an item whose target node is
\* stored with status "error", it does not call that node's
\* process_training_data.
C15_NoProcessingInError ==
    [][\A k \in DOMAIN consumer_pc :
          ConsumerStep(k) =>
              LET node == NodeLookup(active_nodes, Head(training_queue).node_id)
              IN  (node # NoNode /\ node.status = "error") =>
                      \A i \in DOMAIN NewEvents : ~IsProcess(NewEvents[i])]_vars

\* C16 (as claimed): no step changes the id or the role of a stored node, and
\* a step that changes a stored node's status leads from "initializing" to
\* "active" or to "error".
C16_StatusTransitions ==
    [][\A i \in (DOMAIN active_nodes) \cap (DOMAIN active_nodes') :
          /\ active_nodes'[i].node_id = active_nodes[i].node_id
          /\ active_nodes'[i].role = active_nodes[i].role
          /\ active_nodes'[i].status # active_nodes[i].status =>
                /\ active_nodes[i].status = "initializing"
                /\ active_nodes'[i].status \in {"active", "error"}]_vars

\* C17: a consumer step whose item names a stored node calls that node's
\* process_training_data, which raises nothing: the step logs the get, the
\* call (a no-op for every role other than TRAINING and MONITORING, an error
\* logged inside the node for those two) and task_done, leaves every node as
\* it was, and the consumer sleeps and is not ended.
C17_ProcessContained ==
    [][\A k \in DOMAIN consumer_pc :
          ConsumerStep(k) =>
              LET task == Head(training_queue)
                  node == NodeLookup(active_nodes, task.node_id)
              IN  node # NoNode =>
                      /\ active_nodes' = active_nodes
                      /\ consumer_pc'[k] = "sleep"
                      /\ unfinished_tasks' = unfinished_tasks - 1
                      /\ Len(NewEvents) = 3
                      /\ IsGet(NewEvents[1])
                      /\ IsProcess(NewEvents[2])
                      /\ NewEvents[2].outcome =
                            (IF node.role \in {"TRAINING", "MONITORING"}
                             THEN "handler_error_logged" ELSE "noop")
                      /\ NewEvents[3].ev = "task_done"]_vars

\* an item for the PLC node (no handler) and one for the TRAINING node (a
\* handler that fails) have both been processed and marked done
C17_Witness ==
    /\ Len(consumer_log) = 6
    /\ consumer_log[2].ev = "process"
    /\ consumer_log[5].ev = "process"
    /\ {consumer_log[2].outcome, consumer_log[5].outcome}
           = {"noop", "handler_error_logged"}
    /\ consumer_log[6].ev = "task_done"
    /\ \A i \in DOMAIN active_nodes : active_nodes[i].status = "active"

(***************************************************************************)
(* Liveness of the queue                                                   *)
(***************************************************************************)
\* C20: with a consumer running and the event loop running every consumer
\* task that stays ready, every submitted item is eventually dequeued: the
\* n-th submitted item is the n-th item dequeued, so each is dequeued once
\* and the queue holds none forever; a consumer is only ever waiting in get()
\* or in its pause, and in get() with an item waiting it can take its step.
C20_EventuallyDequeued ==
    /\ \A n \in 1..MaxSubmit :
          (Len(submitted) >= n /\ consumer_pc # <<>>) ~> (Len(Gets) >= n)
    /\ [](/\ Len(Gets) <= Len(submitted)
          /\ \A i \in DOMAIN Gets : Gets[i].data = i
          /\ \A k \in DOMAIN consumer_pc :
                /\ consumer_pc[k] \in {"get", "sleep"}
                /\ (consumer_pc[k] = "get" /\ training_queue # <<>>)
                       => ENABLED ConsumerStep(k))

\* every item that may be submitted was submitted and dequeued, the later
\* ones after a pause of the consumer
C20_Witness ==
    /\ Len(submitted) = MaxSubmit
    /\ Len(Gets) = MaxSubmit
    /\ training_queue = <<>>
    /\ Len(consumer_pc) = 1

====
